---- MODULE Spec2Model ----
(***************************************************************************)
(* Model of the SQL execution / migration-tracking layer of                *)
(* EJ_Supervision_Import: utils/etl_helpers.py (run_sql_step,              *)
(* run_sql_step_with_retry, run_sql_script, transaction_scope) and         *)
(* db/migrations.py (_execute, ensure_version_table, has_migration,        *)
(* record_migration), run against one connection of either shape.          *)
(*                                                                         *)
(* The database is kept as two copies, the committed one (com) and the     *)
(* connection's working one (wrk = committed + pending changes).  Every    *)
(* driver call (execute, fetch, commit, rollback) may raise; the calls     *)
(* that raise inside one step of the program are chosen by a fault plan F  *)
(* (a set of call positions inside that step).                             *)
(***************************************************************************)
EXTENDS Integers, Sequences, FiniteSets, TLC

VARIABLES
    shape,      \* "sqlalchemy" (statement-execute) or "dbapi" (cursor-based)
    autocommit, \* conn.autocommit: "absent", "on" or "off"
    com,        \* committed database
    wrk,        \* database as seen by the connection (committed + pending)
    counts,     \* logging_helper.operation_counts
    pc,         \* position of the program: "idle", "script", "retry", "unwind"
    inv,        \* the current / last invocation of a runner (locals + observations)
    sc,         \* the enclosing transaction_scope, if any (locals + observations)
    hist,       \* history: what has happened to the ledger so far
    nops,       \* number of operations started so far
    nfaults,    \* number of driver faults injected so far
    environ,    \* os.environ of the process
    progress    \* the importer's progress file

vars ==
    <<shape, autocommit, com, wrk, counts, pc, inv, sc, hist, nops, nfaults, environ, progress>>

----------------------------------------------------------------------------
(* Bounds *)

MaxOps == 2
MaxFaults == 2
MaxRetryCalls == 1
MaxRuns == 1
MaxRunnerCalls == 1

(* Program constants *)

MAX_RETRY_ATTEMPTS == 3

----------------------------------------------------------------------------
(* Exceptions *)

NoExc == [cls |-> "none", msg |-> "", sql |-> <<>>, table_name |-> "", orig |-> <<"none", "">>]

RawExc(cls, msg) == [cls |-> cls, msg |-> msg, sql |-> <<>>, table_name |-> "", orig |-> <<"none", "">>]

SQLExecutionError(sql, e, name) ==
    [cls |-> "SQLExecutionError", msg |-> e.msg, sql |-> sql, table_name |-> name,
     orig |-> <<e.cls, e.msg>>]

Raised(r) == r.exc.cls # "none"

\* The driver errors a fault can raise: three pyodbc.Error messages and one
\* exception that is not a pyodbc.Error.
FaultKinds == {"timeout", "deadlock", "boom", "nondriver"}

\* Only run_sql_step_with_retry looks at the error it catches; the other
\* operations are run against one kind of driver error.
PlainKinds == {"boom"}

FaultExc(kind) ==
    CASE kind = "timeout"  -> RawExc("pyodbc.Error", "Query Timeout expired")
      [] kind = "deadlock" -> RawExc("pyodbc.Error", "Transaction was DEADLOCKED")
      [] kind = "boom"     -> RawExc("pyodbc.Error", "boom")
      [] OTHER             -> RawExc("RuntimeError", "boom")

\* str(exc.original_error).lower()
Lower(msg) ==
    CASE msg = "Query Timeout expired"      -> "query timeout expired"
      [] msg = "Transaction was DEADLOCKED" -> "transaction was deadlocked"
      [] OTHER                              -> msg

\* "timeout" in err_str / "deadlock" in err_str
ContainsTimeout(s) == s = "query timeout expired"
ContainsDeadlock(s) == s = "transaction was deadlocked"

----------------------------------------------------------------------------
(* The database behind the connection *)

NoSchema  == [exists |-> FALSE, rowid |-> FALSE, oldpk |-> FALSE, uq |-> FALSE]
Fresh     == [exists |-> TRUE,  rowid |-> TRUE,  oldpk |-> FALSE, uq |-> FALSE]
Legacy    == [exists |-> TRUE,  rowid |-> FALSE, oldpk |-> TRUE,  uq |-> FALSE]
Upgraded  == [exists |-> TRUE,  rowid |-> TRUE,  oldpk |-> FALSE, uq |-> TRUE]

Stmt(k, a) == [k |-> k, a |-> a]

InSeq(x, s) == \E i \in 1..Len(s) : s[i] = x

Count(x, s) == Cardinality({i \in 1..Len(s) : s[i] = x})

UniqueEnforced(schema) == schema.uq \/ schema.oldpk

\* The lines that hold the statement FAIL, which no server accepts.
HasFail(l) == l \in {"FAIL", "SELECT 1; FAIL; SELECT 2"}

\* A statement the server rejects whatever the driver does.
DetFail(db, st) ==
    CASE st.k = "has"       -> ~db.schema.exists
      [] st.k = "insert"    -> \/ ~db.schema.exists
                               \/ UniqueEnforced(db.schema) /\ InSeq(st.a[1], db.ledger)
      [] st.k = "create"    -> db.schema.exists
      [] st.k = "check_col" -> FALSE
      [] st.k = "unit"      -> \E i \in 1..Len(st.a) : HasFail(st.a[i])
      [] OTHER              -> FALSE

Apply(db, st) ==
    CASE st.k = "create"    -> [db EXCEPT !.schema = Fresh]
      [] st.k = "drop_pk"   -> [db EXCEPT !.schema.oldpk = FALSE]
      [] st.k = "add_rowid" -> [db EXCEPT !.schema.rowid = TRUE]
      [] st.k = "add_uq"    -> [db EXCEPT !.schema.uq = TRUE]
      [] st.k = "insert"    -> [db EXCEPT !.ledger = Append(@, st.a[1])]
      [] st.k = "unit"      -> [db EXCEPT !.effects = Append(@, st.a)]
      [] OTHER              -> db

\* What fetching the statement's result gives: "rows", "empty" or, for a
\* statement without a result set, an error.
Rows(db, st) ==
    CASE st.k = "check_table" -> IF db.schema.exists THEN "rows" ELSE "empty"
      [] st.k = "check_col"   -> IF db.schema.rowid THEN "rows" ELSE "empty"
      [] st.k = "pk_select"   -> IF db.schema.oldpk THEN "rows" ELSE "empty"
      [] st.k = "has"         -> IF InSeq(st.a[1], db.ledger) THEN "rows" ELSE "empty"
      [] st.k = "unit"        -> "rows"
      [] OTHER                -> "noresult"

----------------------------------------------------------------------------
(* Driver calls.  c is the context threaded through one step of the        *)
(* program: the two database copies, the counters, the number of driver    *)
(* calls made in this step, their log, and the fault plan.                 *)

Ctx(F, kind) ==
    [com |-> com, wrk |-> wrk, counts |-> counts, n |-> 0, log |-> <<>>,
     F |-> F, kind |-> kind, last |-> "noresult"]

Res(c, exc, ret) == [c |-> c, exc |-> exc, ret |-> ret]

\* Statement sequencing: the result r of a call is bound to a local and the
\* rest of the body, K, runs with it.  With Then an exception raised by the
\* call leaves the body at once.
With(r, K(_)) == K(r)
Then(r, K(_)) == IF r.exc.cls # "none" THEN r ELSE K(r)

Faulty(c) == (c.n + 1) \in c.F

Tick(c, op, st) == [c EXCEPT !.n = @ + 1, !.log = Append(@, [op |-> op, k |-> st.k, a |-> st.a])]

NoStmt == Stmt("", <<>>)

\* conn.execute(text(sql)) / cursor.execute(sql)
Execute(c, st) ==
    LET c1 == Tick(c, "execute", st) IN
    IF Faulty(c) THEN Res(c1, FaultExc(c.kind), "None")
    ELSE IF DetFail(c.wrk, st) THEN Res(c1, RawExc("pyodbc.Error", "rejected by server"), "None")
    ELSE LET w == Apply(c.wrk, st) IN
         Res([c1 EXCEPT !.wrk = w,
                        !.com = IF autocommit = "on" THEN w ELSE @,
                        !.last = Rows(c.wrk, st)],
             NoExc, "None")

\* result.fetchall() / list(result.mappings()) / cursor.fetchall()
Fetch(c) ==
    LET c1 == Tick(c, "fetch", NoStmt) IN
    IF Faulty(c) THEN Res(c1, FaultExc(c.kind), "None")
    ELSE IF c.last = "noresult" THEN Res(c1, RawExc("pyodbc.Error", "no results"), "None")
    ELSE Res(c1, NoExc, c.last)

\* conn.commit()
Commit(c) ==
    LET c1 == Tick(c, "commit", NoStmt) IN
    IF Faulty(c) THEN Res(c1, FaultExc(c.kind), "None")
    ELSE Res([c1 EXCEPT !.com = c.wrk], NoExc, "None")

\* conn.rollback()
Rollback(c) ==
    LET c1 == Tick(c, "rollback", NoStmt) IN
    IF Faulty(c) THEN Res(c1, FaultExc(c.kind), "None")
    ELSE Res([c1 EXCEPT !.wrk = c.com], NoExc, "None")

Truthy(ret) == ret = "rows"

----------------------------------------------------------------------------
(* db/migrations.py *)

\* _execute(conn, sql, params, fetch): returns the fetched rows ("rows" /
\* "empty"), or "None".
\* try: fetchall() except Exception: None
FetchOrNone(c) == With(Fetch(c), LAMBDA f : Res(f.c, NoExc, IF Raised(f) THEN "None" ELSE f.ret))

Execute_(c, st, fetch) ==
    Then(Execute(c, st), LAMBDA r :
        IF shape = "sqlalchemy" THEN
            IF fetch THEN FetchOrNone(r.c) ELSE Res(r.c, NoExc, "None")
        ELSE
            With(IF fetch THEN FetchOrNone(r.c) ELSE Res(r.c, NoExc, "None"), LAMBDA f :
                Then(Commit(f.c), LAMBDA cm : Res(cm.c, NoExc, f.ret))))

\* The ALTER statements that bring an older ledger table up to date.
UpgradeTable(c) ==
    Then(Execute_(c, Stmt("pk_select", <<>>), TRUE), LAMBDA pk :
    Then(IF Truthy(pk.ret) THEN Execute_(pk.c, Stmt("drop_pk", <<>>), FALSE)
         ELSE Res(pk.c, NoExc, "None"), LAMBDA dr :
    Then(Execute_(dr.c, Stmt("add_rowid", <<>>), FALSE), LAMBDA ar :
    Execute_(ar.c, Stmt("add_uq", <<>>), FALSE))))

ensure_version_table(c) ==
    Then(Execute_(c, Stmt("check_table", <<>>), TRUE), LAMBDA t :
        IF ~Truthy(t.ret) THEN Execute_(t.c, Stmt("create", <<>>), FALSE)
        ELSE Then(Execute_(t.c, Stmt("check_col", <<>>), TRUE), LAMBDA col :
                 IF ~Truthy(col.ret) THEN UpgradeTable(col.c)
                 ELSE Res(col.c, NoExc, "None")))

\* has_migration answering False whatever the ledger holds.
has_migrationAlwaysFalse(c, name) ==
    Then(Execute_(c, Stmt("has", <<name>>), TRUE), LAMBDA r : Res(r.c, NoExc, "False"))

\* has_migration(conn, name): ret is "True" or "False"
has_migration(c, name) ==
    Then(Execute_(c, Stmt("has", <<name>>), TRUE), LAMBDA r :
        Res(r.c, NoExc, IF Truthy(r.ret) THEN "True" ELSE "False"))

\* The except branch of record_migration: rollback, then raise e.
RollbackAndRaise(c, e) == Then(Rollback(c), LAMBDA rb : Res(rb.c, e, "None"))

\* try: conn.execute(INSERT); conn.commit()
InsertAndCommit(c, migration_name) ==
    Then(Execute(c, Stmt("insert", <<migration_name>>)), LAMBDA ins : Commit(ins.c))

record_migration(c, migration_name) ==
    Then(ensure_version_table(c), LAMBDA ev :
        IF shape = "sqlalchemy" THEN
            With(InsertAndCommit(ev.c, migration_name), LAMBDA r :
                IF Raised(r) THEN RollbackAndRaise(r.c, r.exc) ELSE r)
        ELSE Execute_(ev.c, Stmt("insert", <<migration_name>>), FALSE))

\* The exception the INSERT of record_migration raises (NoExc: the INSERT
\* is not reached, or it succeeds), for the properties.
InsertExc(c, migration_name) ==
    With(ensure_version_table(c), LAMBDA ev :
        IF Raised(ev) THEN NoExc
        ELSE Execute(ev.c, Stmt("insert", <<migration_name>>)).exc)

----------------------------------------------------------------------------
(* utils/logging_helper.py *)

record_success(c) == [c EXCEPT !.counts.success = @ + 1]

record_failure(c) == [c EXCEPT !.counts.failure = @ + 1]

----------------------------------------------------------------------------
(* utils/etl_helpers.py: run_sql_step *)

StepNames == {"GatherCaseIDs", "GatherChargeIDs"}

StepSql(name) == IF name = "GatherCaseIDs" THEN <<"INSERT CaseIDs">> ELSE <<"INSERT ChargeIDs">>

\* The except branch of run_sql_step.
StepFailed(c, name, sql, e) == Res(record_failure(c), SQLExecutionError(sql, e, name), "None")

\* After the statement has executed: fetch, count the success, write the ledger.
StepAfterExecute(c, name, sql) ==
    With(FetchOrNone(c), LAMBDA f :
        Then(record_migration(record_success(f.c), name), LAMBDA m :
            Res(m.c, NoExc, f.ret)))

\* The try block of run_sql_step.
StepBody(c, name, sql) ==
    Then(IF shape = "sqlalchemy" THEN Res(c, NoExc, "None")
         ELSE Execute(c, Stmt("lock_timeout", <<>>)), LAMBDA lt :
        Then(Execute(lt.c, Stmt("unit", sql)), LAMBDA r :
            StepAfterExecute(r.c, name, sql)))

run_sql_step(c, name, sql) ==
    With(StepBody(c, name, sql), LAMBDA r :
        IF Raised(r) THEN StepFailed(r.c, name, sql, r.exc) ELSE r)

----------------------------------------------------------------------------
(* utils/etl_helpers.py: run_sql_script, splitting *)

ScriptNames == {"script1"}

\* The scripts whose splitting is examined: the specification's example, a
\* batch that begins with a comment line, a batch with a comment line and a
\* blank line inside, and the ';'-separated script of test_run_sql_script_failure.
SplitNames == {"script1", "header", "inner", "semi"}

\* The text of each script, as its lines.  "script1" is the specification's
\* splitting example.
ScriptSql(name) ==
    CASE name = "header" -> <<"-- header", "SELECT 1", " GO ", "SELECT 2">>
      [] name = "inner"  -> <<"SELECT 1", "-- comment only", "", "SELECT 2", "go">>
      [] name = "semi"   -> <<"SELECT 1; FAIL; SELECT 2">>
      [] OTHER           -> <<"SELECT 1", "GO", "-- comment only", "GO", "SELECT 2">>

\* line.strip() == "" / line.strip().upper() == "GO" / line.strip().startswith("--")
IsBlank(l) == l \in {"", "  "}
IsGo(l) == l \in {"GO", "go", " GO "}
IsComment(l) == l \in {"-- comment only", "-- header"}

\* re.split(r'(?:^|\n)\s*GO\s*(?:\r?\n|$)', sql, flags=IGNORECASE | MULTILINE), on lines
RECURSIVE SplitGo(_, _, _)
SplitGo(lines, i, cur) ==
    IF i > Len(lines) THEN <<cur>>
    ELSE IF IsGo(lines[i]) THEN <<cur>> \o SplitGo(lines, i + 1, <<>>)
    ELSE SplitGo(lines, i + 1, Append(cur, lines[i]))

\* batch.strip(), on lines
RECURSIVE Strip(_)
Strip(b) ==
    IF b = <<>> THEN b
    ELSE IF IsBlank(b[1]) THEN Strip(Tail(b))
    ELSE IF IsBlank(b[Len(b)]) THEN Strip(SubSeq(b, 1, Len(b) - 1))
    ELSE b

\* The batches run_sql_script executes: stripped, non-empty, not starting with "--".
RECURSIVE ExecutableOf(_)
ExecutableOf(batches) ==
    IF batches = <<>> THEN <<>>
    ELSE LET batch_sql == Strip(Head(batches)) IN
         IF batch_sql # <<>> /\ ~IsComment(batch_sql[1])
         THEN <<batch_sql>> \o ExecutableOf(Tail(batches))
         ELSE ExecutableOf(Tail(batches))

ExecBatches(sql) == ExecutableOf(SplitGo(sql, 1, <<>>))

\* The lines of a batch that are neither blank nor comment lines.
CleanLines(batch) == SelectSeq(batch, LAMBDA l : ~IsBlank(l) /\ ~IsComment(l))

\* The batches run_sql_script_pyodbc_raw executes: of each GO-separated
\* batch the lines that are neither blank nor comments, if there is one.
RECURSIVE CleanedOf(_)
CleanedOf(batches) ==
    IF batches = <<>> THEN <<>>
    ELSE IF CleanLines(Head(batches)) # <<>>
         THEN <<CleanLines(Head(batches))>> \o CleanedOf(Tail(batches))
         ELSE CleanedOf(Tail(batches))

CleanedBatches(sql) == CleanedOf(SplitGo(sql, 1, <<>>))

\* The idempotence gate: ensure_version_table, then has_migration.
Gate(c, name) == Then(ensure_version_table(c), LAMBDA ev : has_migration(ev.c, name))

\* The outer "except Exception" branch of run_sql_script.
ScriptFailed(c, name, sql, e) == Res(record_failure(c), SQLExecutionError(sql, e, name), "None")

\* ExecuteUnit without the commit that follows the execute.
ExecuteUnitNoCommit(c, unit) == Execute(c, Stmt("unit", unit))

\* ExecuteUnit leaving out a unit whose effect is already committed.
ExecuteUnitOnce(c, unit) ==
    IF InSeq(unit, c.com.effects) THEN Res(c, NoExc, "None")
    ELSE Then(Execute(c, Stmt("unit", unit)), LAMBDA r : Commit(r.c))

\* execute + commit of one unit (a batch, or the whole text in raw mode)
ExecuteUnit(c, unit) == Then(Execute(c, Stmt("unit", unit)), LAMBDA r : Commit(r.c))

\* record_success(); record_migration(conn, name)
ScriptSucceeded(c, name, sql) ==
    With(record_migration(record_success(c), name), LAMBDA m :
        IF Raised(m) THEN ScriptFailed(m.c, name, sql, m.exc) ELSE m)

----------------------------------------------------------------------------
(* utils/etl_helpers.py: transaction_scope *)

\* The exceptions the caller's block raises on its own.
BlockExcs == {RawExc("RuntimeError", "block failed")}

\* except Exception: conn.rollback(); raise
ScopeRollback(c, e) == Then(Rollback(c), LAMBDA rb : Res(rb.c, e, "None"))

\* ScopeBody committing before it rolls back for an escaping exception.
ScopeBodyCommitFirst(c, blockExc) ==
    With(Commit(c), LAMBDA cm :
        IF blockExc.cls = "none" THEN
            IF Raised(cm) THEN ScopeRollback(cm.c, cm.exc) ELSE cm
        ELSE ScopeRollback(cm.c, blockExc))

\* What follows the yield: commit, or rollback and re-raise.
ScopeBody(c, blockExc) ==
    IF blockExc.cls = "none" THEN
        With(Commit(c), LAMBDA cm :
            IF Raised(cm) THEN ScopeRollback(cm.c, cm.exc) ELSE cm)
    ELSE ScopeRollback(c, blockExc)

\* Restore leaving the attribute as the scope set it.
RestoreNothing(original_autocommit, current) == current

\* finally: conn.autocommit = original_autocommit
Restore(original_autocommit, current) ==
    IF original_autocommit # "absent" THEN original_autocommit ELSE current

----------------------------------------------------------------------------
(* Fault plans: the sets of call positions of one step that raise, within  *)
(* the remaining fault budget.  N(F) is the number of driver calls the     *)
(* step makes under plan F.                                                *)

Budget == MaxFaults - nfaults

Plans(N(_)) ==
    {{}}
    \cup (IF Budget >= 1 THEN {{p} : p \in 1..N({})} ELSE {})
    \cup (IF Budget >= 2 THEN UNION {{{p, q} : q \in (p + 1)..N({p})} : p \in 1..N({})} ELSE {})

\* The kinds of error a plan is run with (one kind is enough for no fault).
KindsFor(F, kinds) == IF F = {} THEN {"boom"} ELSE kinds

\* A fault inside a ledger operation (ensure_version_table, has_migration,
\* record_migration) that ran between contexts c0 and c1.
FaultIn(c0, c1) == \E p \in c1.F : c0.n < p /\ p <= c1.n

----------------------------------------------------------------------------
(* State *)

\* What an invocation is seen to do to the connection: the units (batches,
\* steps) submitted in order, and the numbers of execute calls, of those
\* that are the ledger's SELECTs, of commits, rollbacks and ledger inserts.
NoObs == [units |-> <<>>, stmts |-> 0, reads |-> 0, commits |-> 0, rollbacks |-> 0, inserts |-> 0]

NoInv ==
    [op |-> "none", name |-> "", sql |-> <<>>, raw |-> FALSE, todo |-> <<>>, k |-> 0,
     obs |-> NoObs, exc |-> NoExc, ret |-> "None", status |-> "none", gate |-> "none",
     attempt |-> 0, max_retries |-> 0, sleeps |-> <<>>, warnings |-> <<>>,
     eff0 |-> 0, prior |-> FALSE, nested |-> FALSE, recorded |-> FALSE,
     gateFault |-> FALSE, failedIn |-> "none", outcomes |-> <<>>, last |-> NoExc,
     lastRet |-> "None", prevk |-> 0, ucommits |-> 0, calls |-> <<>>, old_environ |-> <<>>,
     env |-> <<>>, prevUnrecorded |-> FALSE, counts0 |-> [success |-> 0, failure |-> 0],
     executed |-> <<>>, resume |-> FALSE, start_idx |-> 0, rows |-> <<>>, progress0 |-> <<>>]

NoScope ==
    [status |-> "none", orig |-> "absent", commits |-> 0, rollbacks |-> 0,
     blockExc |-> NoExc, outExc |-> NoExc, ops |-> <<>>, eff0 |-> <<>>, done |-> <<>>]

Shapes == {"sqlalchemy", "dbapi"}

\* The environment variables looked at, and their values ("unset": the
\* variable is not in os.environ / not in the env argument).
EnvKeys == {"FOO", "BAR"}
EnvValues == {"old", "new"}
Environs == [EnvKeys -> EnvValues \cup {"unset"}]

\* utils/progress_tracker.py.  The progress file: its path, and either
\* absent or a mapping from the phase keys to row indexes (0: the key is not
\* in the file).
ProgressKeys == {"table_operations", "pk_creation"}

\* The path of the file: with a directory part (EJ_LOG_DIR or PROGRESS_FILE
\* names one), or a bare file name (EJ_LOG_DIR is not set).
ProgressPaths == {"dir", "bare"}

NoProgress == [path |-> "dir", exists |-> FALSE, table_operations |-> 0, pk_creation |-> 0]

\* ProgressTracker.get(key): 0 when the file or the key is absent
ProgressGet(p, key) == IF p.exists THEN p[key] ELSE 0

\* ProgressTracker.update(key, value): load, set the key, write the file.
\* os.makedirs(os.path.dirname(path)) raises for a bare file name; the
\* error is logged and nothing is written.
ProgressUpdate(p, key, value) ==
    IF p.path = "bare" THEN p ELSE [p EXCEPT !.exists = TRUE, ![key] = value]

\* ProgressTracker.delete leaving the file where it is.
ProgressDeleteNothing(p) == p

\* ProgressTracker.delete()
ProgressDelete(p) == [p EXCEPT !.exists = FALSE, !.table_operations = 0, !.pk_creation = 0]

InitSchemas == {NoSchema, Fresh, Legacy}

\* The ledgers a database with the given schema may hold at the start.
InitLedgers(schema) == IF schema.exists THEN {<<>>, <<"script1">>} ELSE {<<>>}

Init ==
    /\ shape \in Shapes
    /\ autocommit \in (IF shape = "sqlalchemy" THEN {"absent"} ELSE {"on", "off"})
    /\ \E schema \in InitSchemas :
       \E ledger \in InitLedgers(schema) :
          com = [schema |-> schema, ledger |-> ledger, effects |-> <<>>]
    /\ wrk = com
    /\ counts = [success |-> 0, failure |-> 0]
    /\ pc = "idle"
    /\ inv = NoInv
    /\ sc = NoScope
    /\ hist = [seeded |-> InSeq("script1", com.ledger), completed |-> {}, ledgerFault |-> FALSE,
               failed |-> {}, unrecorded |-> {}, environ0 |-> <<>>]
    /\ nops = 0
    /\ nfaults = 0
    /\ environ = [k \in EnvKeys |-> "unset"]
    /\ progress = NoProgress

InScope == sc.status = "open"

\* Where control goes when an invocation ends: an exception raised inside
\* the block of a transaction_scope escapes the block.
After(exc) == IF exc.cls # "none" /\ InScope THEN "unwind" ELSE "idle"

Commits(log) == Cardinality({i \in 1..Len(log) : log[i].op = "commit"})
Rollbacks(log) == Cardinality({i \in 1..Len(log) : log[i].op = "rollback"})

\* The units (batches, steps) submitted to the driver, in order.
Units(log) ==
    LET sel == SelectSeq(log, LAMBDA e : e.op = "execute" /\ e.k = "unit")
    IN [i \in 1..Len(sel) |-> sel[i].a]

Inserts(log) == Cardinality({i \in 1..Len(log) : log[i].op = "execute" /\ log[i].k = "insert"})

Stmts(log) == Cardinality({i \in 1..Len(log) : log[i].op = "execute"})

Reads(log) ==
    Cardinality({i \in 1..Len(log) :
        log[i].op = "execute" /\ log[i].k \in {"check_table", "check_col", "pk_select", "has"}})

\* Adds the calls of one step of the program to the observations.
Observe(obs, log) ==
    [units |-> obs.units \o Units(log), stmts |-> obs.stmts + Stmts(log),
     reads |-> obs.reads + Reads(log),
     commits |-> obs.commits + Commits(log), rollbacks |-> obs.rollbacks + Rollbacks(log),
     inserts |-> obs.inserts + Inserts(log)]

\* Takes the databases, the counters and the fault count out of a context.
Store(c) ==
    /\ com' = c.com
    /\ wrk' = c.wrk
    /\ counts' = c.counts
    /\ nfaults' = nfaults + Cardinality(c.F)

\* The SQL of the step was executed by the driver without an error.
UnitExecuted(log, F) == \E i \in 1..Len(log) : log[i].k = "unit" /\ i \notin F

\* Of a step only the units submitted are observed.
ObserveUnits(obs, log) == [obs EXCEPT !.units = @ \o Units(log)]

----------------------------------------------------------------------------
(* Operations *)

NoteOp(kind) == IF InScope THEN [sc EXCEPT !.ops = Append(@, kind)] ELSE sc

\* run_sql_step called directly (as execute_preprocessing does for each step)
RunStep(name) ==
    /\ pc = "idle"
    /\ nops < MaxOps
    /\ \E F \in Plans(LAMBDA G : run_sql_step(Ctx(G, "boom"), name, StepSql(name)).c.n) :
       \E kind \in KindsFor(F, PlainKinds) :
          LET r == run_sql_step(Ctx(F, kind), name, StepSql(name)) IN
          /\ Store(r.c)
          /\ inv' = [NoInv EXCEPT !.op = "step", !.name = name, !.sql = StepSql(name),
                                  !.obs = ObserveUnits(NoObs, r.c.log), !.exc = r.exc,
                                  !.ret = r.ret, !.k = 1,
                                  !.status = IF Raised(r) THEN "raised" ELSE "returned",
                                  !.eff0 = Len(com.effects), !.nested = InScope]
          /\ sc' = IF InScope
                   THEN [sc EXCEPT !.ops = Append(@, "step"),
                                   !.done = IF Raised(r) THEN @ ELSE Append(@, StepSql(name))]
                   ELSE sc
          /\ pc' = After(r.exc)
    /\ nops' = nops + 1
    /\ UNCHANGED <<progress, environ, shape, autocommit, hist>>

\* isinstance(exc.original_error, pyodbc.Error)
IsDriverError(exc) == exc.orig[1] = "pyodbc.Error"

\* RetryDecision with the last allowed attempt taken to be one later.
RetryDecisionOneMore(exc, attempt, max_retries) ==
    IF ~IsDriverError(exc) THEN "raise"
    ELSE IF attempt = max_retries THEN "raise"
    ELSE "sleep"

\* The except branch of run_sql_step_with_retry: "raise" or "sleep".
RetryDecision(exc, attempt, max_retries) ==
    IF ~IsDriverError(exc) THEN "raise"
    ELSE IF attempt = max_retries - 1 THEN "raise"
    ELSE "sleep"

\* How the specification classifies the outcome of an attempt: "ok",
\* "transient" (a driver error whose message contains "timeout" or
\* "deadlock", whatever the case), "driver" (another driver error) or
\* "other" (the wrapped error is no driver error).
Outcome(exc) ==
    IF exc.cls = "none" THEN "ok"
    ELSE IF ~IsDriverError(exc) THEN "other"
    ELSE IF ContainsTimeout(Lower(exc.orig[2])) \/ ContainsDeadlock(Lower(exc.orig[2]))
         THEN "transient"
    ELSE "driver"

\* The warning logged before the sleep.
RetryWarning(exc) ==
    LET err_str == Lower(exc.orig[2]) IN
    IF ContainsTimeout(err_str) THEN "Timeout"
    ELSE IF ContainsDeadlock(err_str) THEN "Deadlock"
    ELSE "none"

\* A delay that grows by two seconds per attempt instead of doubling.
SleepLinear(n) == 2 * n + 1

\* 2**attempt
RECURSIVE Pow2(_)
Pow2(n) == IF n = 0 THEN 1 ELSE 2 * Pow2(n - 1)

\* run_sql_step_with_retry is called
RetryBegin(name, max_retries) ==
    /\ pc = "idle"
    /\ ~InScope
    /\ nops < MaxRetryCalls
    /\ inv' = [NoInv EXCEPT !.op = "retry", !.name = name, !.sql = StepSql(name),
                            !.max_retries = max_retries, !.status = "running",
                            !.eff0 = Len(com.effects), !.nested = InScope]
    /\ pc' = "retry"
    /\ nops' = nops + 1
    /\ UNCHANGED <<progress, environ, shape, autocommit, com, wrk, counts, sc, hist, nfaults>>

\* One iteration of "for attempt in range(max_retries)"
RetryAttempt ==
    /\ pc = "retry"
    /\ \E F \in Plans(LAMBDA G : run_sql_step(Ctx(G, "boom"), inv.name, inv.sql).c.n) :
       \E kind \in KindsFor(F, FaultKinds) :
          LET r == run_sql_step(Ctx(F, kind), inv.name, inv.sql)
              d == IF Raised(r) THEN RetryDecision(r.exc, inv.attempt, inv.max_retries)
                   ELSE "return"
          IN
          /\ Store(r.c)
          /\ inv' = [inv EXCEPT !.obs = ObserveUnits(@, r.c.log), !.k = @ + 1,
                                !.exc = IF d = "raise" THEN r.exc ELSE NoExc,
                                !.ret = IF d = "return" THEN r.ret ELSE "None",
                                !.outcomes = Append(@, Outcome(r.exc)),
                                !.executed = Append(@, UnitExecuted(r.c.log, F)),
                                !.last = r.exc,
                                !.lastRet = r.ret,
                                !.status = CASE d = "return" -> "returned"
                                             [] d = "raise"  -> "raised"
                                             [] OTHER        -> "running",
                                !.attempt = IF d = "sleep" THEN @ + 1 ELSE @,
                                !.sleeps = IF d = "sleep" THEN Append(@, Pow2(inv.attempt)) ELSE @,
                                !.warnings = IF d = "sleep" THEN Append(@, RetryWarning(r.exc)) ELSE @]
          /\ pc' = IF d = "sleep" THEN "retry"
                   ELSE IF d = "raise" THEN After(r.exc) ELSE "idle"
    /\ UNCHANGED <<progress, environ, shape, autocommit, sc, hist, nops>>

\* cursor.execute(f"SET LOCK_TIMEOUT {timeout * 1000}") on a cursor-based
\* connection, inside the try of run_sql_script; ret "passed" when the
\* batches are to run.
SetLockTimeout(c, name, sql) ==
    IF shape = "dbapi" THEN
        With(Execute(c, Stmt("lock_timeout", <<>>)), LAMBDA lt :
            IF Raised(lt) THEN ScriptFailed(lt.c, name, sql, lt.exc)
            ELSE Res(lt.c, NoExc, "passed"))
    ELSE Res(c, NoExc, "passed")

\* StartScript without the early return of the gate.
StartScriptNoSkip(c, name, sql) ==
    Then(Gate(c, name), LAMBDA g : SetLockTimeout(g.c, name, sql))

\* run_sql_script up to the first batch: the gate and, on a cursor-based
\* connection, the SET LOCK_TIMEOUT.  ret is "skipped" or "passed".
StartScript(c, name, sql) ==
    Then(Gate(c, name), LAMBDA g :
        IF g.ret = "True" THEN Res(g.c, NoExc, "skipped")
        ELSE SetLockTimeout(g.c, name, sql))

\* UnitsToRun splitting the text in raw mode too.
UnitsToRunAlwaysSplit(sql, raw_execution) == ExecBatches(sql)

\* The units run_sql_script submits: the whole text if raw_execution, the
\* executable batches otherwise.
UnitsToRun(sql, raw_execution) == IF raw_execution THEN <<sql>> ELSE ExecBatches(sql)

\* The batch at which the latest failed invocation of the script failed so
\* far (0: none failed in a batch), for the properties.
LastFailedAt(name) ==
    LET ks == {p[2] : p \in {q \in hist.failed : q[1] = name}} IN
    IF ks = {} THEN 0 ELSE CHOOSE k \in ks : \A j \in ks : j <= k

\* run_sql_script is called
ScriptStart(name, raw) ==
    /\ pc = "idle"
    /\ nops < MaxOps
    /\ \E F \in Plans(LAMBDA G : StartScript(Ctx(G, "boom"), name, ScriptSql(name)).c.n) :
       \E kind \in KindsFor(F, PlainKinds) :
          LET sql == ScriptSql(name)
              c0  == Ctx(F, kind)
              g   == Gate(c0, name)
              r   == StartScript(c0, name, sql)
              go  == ~Raised(r) /\ r.ret = "passed"
          IN
          /\ Store(r.c)
          /\ inv' = [NoInv EXCEPT !.op = "script", !.name = name, !.sql = sql, !.raw = raw,
                                  !.todo = IF ~go THEN <<>> ELSE UnitsToRun(sql, raw),
                                  !.obs = Observe(NoObs, r.c.log), !.exc = r.exc,
                                  !.status = IF Raised(r) THEN "raised"
                                             ELSE IF go THEN "running" ELSE "returned",
                                  !.gate = IF Raised(g) THEN "none"
                                           ELSE IF g.ret = "True" THEN "skipped" ELSE "passed",
                                  !.eff0 = Len(wrk.effects),
                                  !.prior = name \in hist.completed,
                                  !.prevk = LastFailedAt(name),
                                  !.prevUnrecorded = name \in hist.unrecorded,
                                  !.counts0 = counts,
                                  !.recorded = InSeq(name, wrk.ledger),
                                  !.gateFault = Raised(g) \/ FaultIn(c0, g.c),
                                  !.failedIn = IF Raised(g) THEN "gate"
                                               ELSE IF Raised(r) THEN "setup" ELSE "none",
                                  !.nested = InScope]
          /\ hist' = [hist EXCEPT !.ledgerFault = @ \/ Raised(g) \/ FaultIn(c0, g.c),
                                  !.completed = IF ~Raised(r) /\ ~go THEN @ \cup {name} ELSE @]
          /\ pc' = IF go THEN "script" ELSE After(r.exc)
    /\ sc' = NoteOp("script")
    /\ nops' = nops + 1
    /\ UNCHANGED <<progress, environ, shape, autocommit>>

\* UnitFailed attaching the whole script text to every failure.
UnitFailedWholeText(c, e) ==
    IF inv.raw THEN ScriptFailed(c, inv.name, inv.sql, e)
    ELSE Res(c, SQLExecutionError(inv.sql, e, inv.name), "None")

\* The except branch around one unit: a batch raises SQLExecutionError with
\* the batch's text; the raw text falls to the outer "except Exception".
UnitFailed(c, e) ==
    IF inv.raw THEN ScriptFailed(c, inv.name, inv.sql, e)
    ELSE Res(c, SQLExecutionError(Head(inv.todo), e, inv.name), "None")

\* The next executable batch (or the whole text in raw mode): execute, commit
ScriptBatch ==
    /\ pc = "script"
    /\ inv.todo # <<>>
    /\ \E F \in Plans(LAMBDA G : ExecuteUnit(Ctx(G, "boom"), Head(inv.todo)).c.n) :
       \E kind \in KindsFor(F, PlainKinds) :
          LET r   == ExecuteUnit(Ctx(F, kind), Head(inv.todo))
              out == IF Raised(r) THEN UnitFailed(r.c, r.exc) ELSE r
          IN
          /\ Store(out.c)
          /\ inv' = [inv EXCEPT !.obs = Observe(@, out.c.log), !.todo = Tail(@), !.k = @ + 1,
                                !.ucommits = @ + Commits(out.c.log),
                                !.exc = out.exc,
                                !.failedIn = IF Raised(out) THEN "batch" ELSE @,
                                !.status = IF Raised(out) THEN "raised" ELSE @]
          /\ hist' = [hist EXCEPT !.failed = IF Raised(out) THEN @ \cup {<<inv.name, inv.k + 1>>}
                                              ELSE @]
          /\ pc' = IF Raised(out) THEN After(out.exc) ELSE "script"
    /\ UNCHANGED <<progress, environ, shape, autocommit, sc, nops>>

\* After the last batch: record_success, record_migration, return
ScriptRecord ==
    /\ pc = "script"
    /\ inv.todo = <<>>
    /\ \E F \in Plans(LAMBDA G : ScriptSucceeded(Ctx(G, "boom"), inv.name, inv.sql).c.n) :
       \E kind \in KindsFor(F, PlainKinds) :
          LET r == ScriptSucceeded(Ctx(F, kind), inv.name, inv.sql) IN
          /\ Store(r.c)
          /\ inv' = [inv EXCEPT !.obs = Observe(@, r.c.log), !.exc = r.exc,
                                !.failedIn = IF Raised(r) THEN "record" ELSE @,
                                !.status = IF Raised(r) THEN "raised" ELSE "returned"]
          /\ hist' = [hist EXCEPT !.ledgerFault = @ \/ Raised(r) \/ F # {},
                                  !.completed = IF Raised(r) THEN @ ELSE @ \cup {inv.name},
                                  !.unrecorded = IF Raised(r) /\ ~inv.recorded
                                                 THEN @ \cup {inv.name} ELSE @]
          /\ pc' = After(r.exc)
    /\ UNCHANGED <<progress, environ, shape, autocommit, sc, nops>>

\* with transaction_scope(conn): up to the yield
ScopeEnter ==
    /\ pc = "idle"
    /\ sc.status = "none"
    /\ sc' = [NoScope EXCEPT !.status = "open", !.orig = autocommit, !.eff0 = com.effects]
    /\ autocommit' = IF autocommit # "absent" THEN "off" ELSE autocommit
    /\ UNCHANGED <<progress, environ, shape, com, wrk, counts, pc, inv, hist, nops, nfaults>>

\* transaction_scope from the end of the block on, the block having ended
\* with blockExc (NoExc: normally)
ScopeLeave(blockExc) ==
    \E F \in Plans(LAMBDA G : ScopeBody(Ctx(G, "boom"), blockExc).c.n) :
    \E kind \in KindsFor(F, PlainKinds) :
       LET r == ScopeBody(Ctx(F, kind), blockExc) IN
       /\ Store(r.c)
       /\ sc' = [sc EXCEPT !.status = "exited", !.commits = Commits(r.c.log),
                           !.rollbacks = Rollbacks(r.c.log),
                           !.blockExc = blockExc, !.outExc = r.exc]
       /\ autocommit' = Restore(sc.orig, autocommit)
       /\ pc' = "idle"
       /\ UNCHANGED <<progress, environ, shape, inv, hist, nops>>

\* The block ends normally
ScopeExitNormal == pc = "idle" /\ InScope /\ ScopeLeave(NoExc)

\* The block raises an exception of its own
ScopeExitRaise == pc = "idle" /\ InScope /\ \E e \in BlockExcs : ScopeLeave(e)

\* The exception of a failed step or script escapes the block
ScopeExitFailedOp == pc = "unwind" /\ ScopeLeave(inv.exc)

\* The statements given to execute_sql_with_timeout.
ExecutorSqls == {<<"SELECT 1">>, <<"SELECT 2">>, <<"FAIL">>}

\* execute_sql_with_timeout: conn.execute(text(sql)) on a statement-execute
\* connection, SET LOCK_TIMEOUT and cursor.execute(sql) on a cursor-based
\* one; the result or the cursor is returned.
execute_sql_with_timeout(c, sql) ==
    IF shape = "sqlalchemy" THEN
        Then(Execute(c, Stmt("unit", sql)), LAMBDA r : Res(r.c, NoExc, "result"))
    ELSE
        Then(Execute(c, Stmt("lock_timeout", <<>>)), LAMBDA lt :
            Then(Execute(lt.c, Stmt("unit", sql)), LAMBDA r : Res(r.c, NoExc, "cursor")))

\* execute_sql_with_timeout is called (by an importer, or through
\* etl.core's wrapper)
ExecuteSqlWithTimeout(sql) ==
    /\ pc = "idle"
    /\ nops < MaxOps
    /\ \E F \in Plans(LAMBDA G : execute_sql_with_timeout(Ctx(G, "boom"), sql).c.n) :
       \E kind \in KindsFor(F, FaultKinds) :
          LET r == execute_sql_with_timeout(Ctx(F, kind), sql) IN
          /\ Store(r.c)
          /\ inv' = [NoInv EXCEPT !.op = "execute", !.sql = sql,
                                  !.obs = Observe(NoObs, r.c.log), !.exc = r.exc,
                                  !.ret = r.ret, !.k = 1,
                                  !.calls = [i \in 1..Len(r.c.log) |-> r.c.log[i].k],
                                  !.failedIn = IF shape = "dbapi" /\ 1 \in F
                                               THEN "lock_timeout" ELSE "none",
                                  !.status = IF Raised(r) THEN "raised" ELSE "returned",
                                  !.eff0 = Len(wrk.effects), !.nested = InScope]
          /\ pc' = After(r.exc)
    /\ sc' = NoteOp("execute")
    /\ nops' = nops + 1
    /\ UNCHANGED <<progress, environ, shape, autocommit, hist>>

----------------------------------------------------------------------------
(* etl/base_importer.py, etl/secure_base_importer.py: the orchestrated run  *)

\* The two orchestrators: BaseDBImporter.run and SecureBaseDBImporter.run_async
Variants == {"base", "secure"}

Unit(phase, name) == [phase |-> phase, name |-> name]

\* RunPlan with the empty tables dropped before the tables are made.
RunPlanDropFirst(variant) ==
    <<Unit("phase", "execute_preprocessing"), Unit("phase", "prepare_drop_and_select"),
      Unit("phase", "import_joins"), Unit("phase", "update_joins_in_tables"),
      Unit("drop_empty", "t3"),
      Unit("table", "t1"), Unit("table", "t2"), Unit("scope_exit", "table_operations"),
      Unit("phase", "create_primarykeys"), Unit("pk", "t1"), Unit("scope_exit", "pk_creation")>>

\* The units of a run in the order of the code, for a database with two
\* tables to convert, one empty table to drop and one primary-key script
\* row.  A unit of phase "phase" is a phase whose body is a subclass's; the
\* exits of the two transaction_scope blocks of the base importer are units.
RunPlan(variant) ==
    IF variant = "base" THEN
        <<Unit("phase", "execute_preprocessing"), Unit("phase", "prepare_drop_and_select"),
          Unit("phase", "import_joins"), Unit("phase", "update_joins_in_tables"),
          Unit("table", "t1"), Unit("table", "t2"), Unit("scope_exit", "table_operations"),
          Unit("drop_empty", "t3"),
          Unit("phase", "create_primarykeys"), Unit("pk", "t1"), Unit("scope_exit", "pk_creation")>>
    ELSE
        <<Unit("phase", "_execute_preprocessing_secure"),
          Unit("phase", "_prepare_drop_and_select_secure"),
          Unit("phase", "_import_joins_secure"), Unit("phase", "_update_joins_secure"),
          Unit("table", "t1"), Unit("table", "t2"),
          Unit("phase", "_create_primary_keys_secure")>>

\* except (SQLExecutionError, SQLAlchemyError, pyodbc.Error)
IsDbError(e) == e.cls \in {"SQLExecutionError", "pyodbc.Error"}

\* sanitize_sql: delegates to execute_sql_with_timeout
sanitize_sql(c, sql_text) == execute_sql_with_timeout(c, sql_text)

\* A phase implemented by a subclass: it returns or it raises.
SubclassPhase(c, name) ==
    Then(Execute(c, Stmt("unit", <<name>>)), LAMBDA r : Res(r.c, NoExc, "ok"))

\* The statements of one row of the table operations, up to the commit
TableStatements(c, t) ==
    Then(sanitize_sql(c, <<"DROP TABLE IF EXISTS", t>>), LAMBDA d :
    Then(sanitize_sql(d.c, <<"SELECT INTO", t>>), LAMBDA s :
    Then(execute_sql_with_timeout(s.c, <<"SELECT COUNT(*)", t>>), LAMBDA n :
    Then(Fetch(n.c), LAMBDA f : Commit(f.c)))))

\* An exception leaves a row handler of the base importer: a database error
\* is rolled back and raised again; then the enclosing transaction_scope
\* rolls back and raises.
RowFailed(c, e) ==
    IF IsDbError(e)
    THEN With(Rollback(c), LAMBDA rb :
             ScopeBody(rb.c, IF Raised(rb) THEN rb.exc ELSE e))
    ELSE ScopeBody(c, e)

\* BaseDBImporter._process_table_operation_row inside the loop and the
\* transaction_scope of execute_table_operations
BaseTableRow(c, t) ==
    With(TableStatements(c, t), LAMBDA r :
        IF Raised(r) THEN RowFailed(r.c, r.exc) ELSE Res(r.c, NoExc, "ok"))

\* BaseDBImporter._process_pk_row inside the loop and the transaction_scope
\* of create_primary_keys
BasePkRow(c, t) ==
    With(Then(sanitize_sql(c, <<"ALTER TABLE ADD PRIMARY KEY", t>>), LAMBDA r : Commit(r.c)),
         LAMBDA r : IF Raised(r) THEN RowFailed(r.c, r.exc) ELSE Res(r.c, NoExc, "ok"))

\* BaseDBImporter.drop_empty_tables for one empty table: a database error
\* of the query or of the DROP is logged and the phase goes on
DropEmptyTable(c, t) ==
    With(Then(execute_sql_with_timeout(c, <<"SELECT empty tables">>), LAMBDA q :
              sanitize_sql(q.c, <<"DROP TABLE IF EXISTS", t>>)),
         LAMBDA r : IF ~Raised(r) THEN Res(r.c, NoExc, "ok")
                    ELSE IF IsDbError(r.exc) THEN Res(r.c, NoExc, "failed")
                    ELSE r)

\* SecureBaseDBImporter._process_table_operation_secure and the except
\* branch of the loop of _execute_table_operations_secure around it: the
\* rollback's own errors are passed over, the SecureETLException raised is
\* caught by the loop, which counts the table as failed and goes on.
SecureTableOp(c, t) ==
    With(Then(Execute(c, Stmt("unit", <<"DROP TABLE IF EXISTS", t>>)), LAMBDA d :
         Then(Execute(d.c, Stmt("unit", <<"SELECT INTO", t>>)), LAMBDA s : Commit(s.c))),
         LAMBDA r : IF ~Raised(r) THEN Res(r.c, NoExc, "ok")
                    ELSE With(Rollback(r.c), LAMBDA rb : Res(rb.c, NoExc, "failed")))

\* One unit of a run: ret is "ok" or "failed"; an exception raised leaves
\* the phase and reaches the except branches of the run.
UnitResult(c, variant, u) ==
    CASE u.phase = "phase"      -> SubclassPhase(c, u.name)
      [] u.phase = "table"      -> IF variant = "base" THEN BaseTableRow(c, u.name)
                                   ELSE SecureTableOp(c, u.name)
      [] u.phase = "scope_exit" -> Then(ScopeBody(c, NoExc), LAMBDA r : Res(r.c, NoExc, "ok"))
      [] u.phase = "drop_empty" -> DropEmptyTable(c, u.name)
      [] u.phase = "pk"         -> BasePkRow(c, u.name)

\* The phases of BaseDBImporter.run, by the methods called.
BasePhases ==
    <<"execute_preprocessing", "prepare_drop_and_select", "import_joins",
      "update_joins_in_tables", "execute_table_operations", "drop_empty_tables",
      "create_primary_keys">>

\* The method of run / run_async inside which a unit is executed.
PhaseOf(u) ==
    CASE u.phase = "phase"      -> IF u.name = "create_primarykeys" THEN "create_primary_keys"
                                   ELSE u.name
      [] u.phase = "table"      -> "execute_table_operations"
      [] u.phase = "scope_exit" -> IF u.name = "table_operations" THEN "execute_table_operations"
                                   ELSE "create_primary_keys"
      [] u.phase = "drop_empty" -> "drop_empty_tables"
      [] u.phase = "pk"         -> "create_primary_keys"

\* The key under which the progress of a row's phase is kept.
ProgressKey(u) == IF u.phase = "table" THEN "table_operations" ELSE "pk_creation"

\* enumerate(rows, 1): the index of a table's row
RowIdx(name) == IF name = "t1" THEN 1 ELSE 2

\* A unit that is a row of one of the two loops of the base importer that
\* keep their progress.
IsTrackedRow(variant, u) == variant = "base" /\ u.phase \in {"table", "pk"}

\* start_idx = self.progress.get(key): read when the phase reaches its loop
StartIdx(u) == IF RowIdx(u.name) = 1 THEN ProgressGet(progress, ProgressKey(u)) ELSE inv.start_idx

\* if idx <= start_idx: continue
RowSkipped(variant, u) == IsTrackedRow(variant, u) /\ RowIdx(u.name) <= StartIdx(u)

\* One unit of a run inside its loop: a row at or below start_idx is passed over.
LoopUnitResult(c, variant, u) ==
    IF RowSkipped(variant, u) THEN Res(c, NoExc, "skipped") ELSE UnitResult(c, variant, u)

\* run / run_async is called: configuration, for the base importer the
\* deletion of the progress file unless RESUME is 1, and the connectivity
\* check, whose failure returns False at once
RunBegin(variant, healthy, resume) ==
    /\ pc = "idle"
    /\ ~InScope
    /\ nops < MaxRuns
    /\ shape = "sqlalchemy"
    /\ variant = "secure" => (healthy /\ resume)
    /\ inv' = [NoInv EXCEPT !.op = "run", !.name = variant,
                            !.todo = IF healthy THEN RunPlan(variant) ELSE <<>>,
                            !.ret = IF healthy THEN "None" ELSE "False",
                            !.status = IF healthy THEN "running" ELSE "returned",
                            !.resume = resume,
                            !.progress0 = progress,
                            !.eff0 = Len(wrk.effects)]
    /\ progress' = IF variant = "base" /\ ~resume THEN ProgressDelete(progress) ELSE progress
    /\ pc' = IF healthy THEN "run" ELSE "idle"
    /\ nops' = nops + 1
    /\ UNCHANGED <<environ, shape, autocommit, com, wrk, counts, sc, hist, nfaults>>

\* The next unit of the run; an exception ends the run with False
RunUnit ==
    /\ pc = "run"
    /\ inv.todo # <<>>
    /\ \E F \in Plans(LAMBDA G : LoopUnitResult(Ctx(G, "boom"), inv.name, Head(inv.todo)).c.n) :
       \E kind \in KindsFor(F, {"boom", "nondriver"}) :
          LET u == Head(inv.todo)
              r == LoopUnitResult(Ctx(F, kind), inv.name, u)
              outcome == IF Raised(r) THEN "raised" ELSE r.ret
          IN
          /\ Store(r.c)
          /\ inv' = [inv EXCEPT !.obs = Observe(@, r.c.log), !.k = @ + 1,
                                !.todo = IF Raised(r) THEN <<>> ELSE Tail(@),
                                !.outcomes = Append(@, outcome),
                                !.calls = IF @ # <<>> /\ @[Len(@)] = PhaseOf(u) THEN @
                                          ELSE Append(@, PhaseOf(u)),
                                !.start_idx = IF IsTrackedRow(inv.name, u) THEN StartIdx(u) ELSE @,
                                !.rows = IF IsTrackedRow(inv.name, u)
                                         THEN Append(@, [key |-> ProgressKey(u),
                                                         idx |-> RowIdx(u.name),
                                                         outcome |-> outcome])
                                         ELSE @,
                                !.last = r.exc,
                                !.ret = IF Raised(r) THEN "False" ELSE @,
                                !.status = IF Raised(r) THEN "returned" ELSE @]
          /\ progress' = IF IsTrackedRow(inv.name, u) /\ outcome = "ok"
                         THEN ProgressUpdate(progress, ProgressKey(u), RowIdx(u.name))
                         ELSE progress
          /\ pc' = IF Raised(r) THEN "idle" ELSE "run"
    /\ UNCHANGED <<environ, shape, autocommit, sc, hist, nops>>

\* After the last phase: the secure importer returns True; the base
\* importer shows its completion dialog, deletes the progress file and
\* returns what the dialog gave (proceed and next_step_name)
RunEnd(proceed) ==
    /\ pc = "run"
    /\ inv.todo = <<>>
    /\ inv.name = "secure" => proceed
    /\ inv' = [inv EXCEPT !.ret = IF proceed THEN "True" ELSE "False", !.status = "returned"]
    /\ progress' = IF inv.name = "base" THEN ProgressDelete(progress) ELSE progress
    /\ pc' = "idle"
    /\ UNCHANGED <<environ, shape, autocommit, com, wrk, counts, sc, hist, nops, nfaults>>

----------------------------------------------------------------------------
(* etl/runner.py: run_sequential_etl *)

import_modules ==
    <<"01_JusticeDB_Import", "02_OperationsDB_Import", "03_FinancialDB_Import", "04_LOBColumns">>

\* os.environ.update(env)
UpdateEnviron(cur, env) == [k \in EnvKeys |-> IF env[k] # "unset" THEN env[k] ELSE cur[k]]

\* Restoring by update alone: a variable that env added stays set.
RestoreEnvironNoClear(cur, old_environ) == UpdateEnviron(cur, old_environ)

\* finally: os.environ.clear(); os.environ.update(old_environ)
RestoreEnviron(cur, old_environ) == UpdateEnviron([k \in EnvKeys |-> "unset"], old_environ)

\* What a module's main() may do to the environment: nothing, or set or
\* delete a variable.
MainEffects(cur) ==
    {cur} \cup {[cur EXCEPT ![k] = v] : k \in EnvKeys, v \in {"new", "unset"}}

\* run_sequential_etl(env) is called: old_environ is taken and env applied
RunnerBegin(env) ==
    /\ pc = "idle"
    /\ ~InScope
    /\ nops < MaxRunnerCalls
    /\ inv' = [NoInv EXCEPT !.op = "runner", !.status = "running",
                            !.todo = import_modules, !.old_environ = environ,
                            !.env = env]
    /\ hist' = [hist EXCEPT !.environ0 = environ]
    /\ environ' = UpdateEnviron(environ, env)
    /\ pc' = "runner"
    /\ nops' = nops + 1
    /\ UNCHANGED <<progress, shape, autocommit, com, wrk, counts, sc, nfaults>>

\* One iteration of the loop: the module is imported and its main() called;
\* main() returns a value or raises.  After a falsy value, an exception or
\* the last module the finally clause runs and the function is left.
ModuleMain(outcome) ==
    /\ pc = "runner"
    /\ inv.todo # <<>>
    /\ \E after \in MainEffects(environ) :
          LET leave == outcome # "truthy" \/ Len(inv.todo) = 1 IN
          /\ inv' = [inv EXCEPT !.calls = Append(@, Head(inv.todo)),
                                !.outcomes = Append(@, outcome),
                                !.todo = IF leave THEN <<>> ELSE Tail(@),
                                !.exc = IF outcome = "raise"
                                        THEN RawExc("RuntimeError", "main failed") ELSE NoExc,
                                !.status = IF outcome = "raise" THEN "raised"
                                           ELSE IF leave THEN "returned" ELSE "running"]
          /\ environ' = IF leave THEN RestoreEnviron(after, inv.old_environ) ELSE after
          /\ pc' = IF leave THEN "idle" ELSE "runner"
    /\ UNCHANGED <<progress, shape, autocommit, com, wrk, counts, sc, hist, nops, nfaults>>

\* What importer.run() returns: True (all phases done, the user proceeds)
\* or False.
RunReturns == {"True", "False"}

\* main() of an import module, importer.run() having returned run_ret:
\* the call's value is dropped and main() ends without a return statement;
\* main() of 04_LOBColumns is declared to return None.
MainReturn(module_name, run_ret) == "None"

\* One iteration of the loop with the repository's own modules: main()
\* runs its importer, which returns run_ret, and "if not proceed: break"
\* looks at what main() returned.
ImportModuleMain(run_ret) ==
    /\ pc = "runner"
    /\ inv.todo # <<>>
    /\ \E after \in MainEffects(environ) :
          LET proceed == MainReturn(Head(inv.todo), run_ret)
              leave   == proceed # "True" \/ Len(inv.todo) = 1
          IN
          /\ inv' = [inv EXCEPT !.calls = Append(@, Head(inv.todo)),
                                !.outcomes = Append(@, run_ret),
                                !.lastRet = proceed,
                                !.todo = IF leave THEN <<>> ELSE Tail(@),
                                !.status = IF leave THEN "returned" ELSE "running"]
          /\ environ' = IF leave THEN RestoreEnviron(after, inv.old_environ) ELSE after
          /\ pc' = IF leave THEN "idle" ELSE "runner"
    /\ UNCHANGED <<progress, shape, autocommit, com, wrk, counts, sc, hist, nops, nfaults>>

\* The names with which the ledger's operations are called directly
LedgerNames == {"script1", "GatherCaseIDs"}

\* One direct call of an operation of db/migrations.py
LedgerResult(c, op, name) ==
    CASE op = "ensure" -> ensure_version_table(c)
      [] op = "has"    -> has_migration(c, name)
      [] op = "record" -> record_migration(c, name)

\* ensure_version_table, has_migration or record_migration is called by the
\* program itself (not through a step or a script)
LedgerOp(op, name) ==
    /\ pc = "idle"
    /\ nops < MaxOps
    /\ \E F \in Plans(LAMBDA G : LedgerResult(Ctx(G, "boom"), op, name).c.n) :
       \E kind \in KindsFor(F, PlainKinds) :
          LET r == LedgerResult(Ctx(F, kind), op, name) IN
          /\ Store(r.c)
          /\ inv' = [NoInv EXCEPT !.op = op, !.name = name,
                                  !.obs = Observe(NoObs, r.c.log), !.exc = r.exc,
                                  !.ret = r.ret,
                                  !.status = IF Raised(r) THEN "raised" ELSE "returned",
                                  !.recorded = InSeq(name, wrk.ledger),
                                  !.last = IF op = "record" THEN InsertExc(Ctx(F, kind), name)
                                           ELSE NoExc,
                                  !.gateFault = F # {},
                                  !.nested = InScope]
          /\ pc' = After(r.exc)
    /\ sc' = NoteOp(op)
    /\ nops' = nops + 1
    /\ UNCHANGED <<progress, environ, shape, autocommit, hist>>

EnsureVersionTable == LedgerOp("ensure", "")

HasMigration(name) == LedgerOp("has", name)

RecordMigration(name) == LedgerOp("record", name)

Next ==
    \/ \E name \in StepNames : RunStep(name)
    \/ EnsureVersionTable
    \/ \E name \in LedgerNames : HasMigration(name)
    \/ \E name \in LedgerNames : RecordMigration(name)
    \/ \E sql \in ExecutorSqls : ExecuteSqlWithTimeout(sql)
    \/ \E variant \in Variants, healthy \in BOOLEAN, resume \in BOOLEAN :
          RunBegin(variant, healthy, resume)
    \/ RunUnit
    \/ \E proceed \in BOOLEAN : RunEnd(proceed)
    \/ \E env \in Environs : RunnerBegin(env)
    \/ \E outcome \in {"truthy", "falsy", "raise"} : ModuleMain(outcome)
    \/ \E run_ret \in RunReturns : ImportModuleMain(run_ret)
    \/ \E n \in 1..MAX_RETRY_ATTEMPTS : RetryBegin("GatherCaseIDs", n)
    \/ RetryAttempt
    \/ \E name \in ScriptNames \cup SplitNames, raw \in BOOLEAN : ScriptStart(name, raw)
    \/ ScriptBatch
    \/ ScriptRecord
    \/ ScopeEnter
    \/ ScopeExitNormal
    \/ ScopeExitRaise
    \/ ScopeExitFailedOp

Spec == Init /\ [][Next]_vars

\* run_sql_script invoked repeatedly
NextScript ==
    \/ \E name \in ScriptNames, raw \in BOOLEAN : ScriptStart(name, raw)
    \/ ScriptBatch
    \/ ScriptRecord

SpecScript == Init /\ [][NextScript]_vars

\* Init with a new ledger: absent, or of the current layout without a row.
InitNew == Init /\ com.ledger = <<>> /\ com.schema \in {NoSchema, Fresh}

\* run_sql_step_with_retry invoked repeatedly, the ledger new at first
NextRetry ==
    \/ \E n \in 1..MAX_RETRY_ATTEMPTS : RetryBegin("GatherCaseIDs", n)
    \/ RetryAttempt

SpecRetry == InitNew /\ [][NextRetry]_vars

\* steps run directly, inside and outside a transaction_scope, the ledger
\* new at first
NextScope ==
    \/ \E name \in StepNames : RunStep(name)
    \/ ScopeEnter
    \/ ScopeExitNormal
    \/ ScopeExitRaise
    \/ ScopeExitFailedOp

SpecScope == InitNew /\ [][NextScope]_vars

\* Init with a ledger table of the current layout.
InitGate == Init /\ com.schema = Fresh

\* a script and a single statement run inside and outside a
\* transaction_scope, the ledger table current
NextGate ==
    \/ \E name \in ScriptNames : ScriptStart(name, FALSE)
    \/ ScriptBatch
    \/ ScriptRecord
    \/ ExecuteSqlWithTimeout(<<"SELECT 1">>)
    \/ ScopeEnter
    \/ ScopeExitNormal
    \/ ScopeExitFailedOp

SpecGate == InitGate /\ [][NextGate]_vars

\* the ledger's operations called directly, and steps, on any ledger
NextLedger ==
    \/ EnsureVersionTable
    \/ \E name \in LedgerNames : HasMigration(name)
    \/ \E name \in LedgerNames : RecordMigration(name)
    \/ \E name \in StepNames : RunStep(name)

SpecLedger == Init /\ [][NextLedger]_vars

\* execute_sql_with_timeout called repeatedly
NextExecutor == \E sql \in ExecutorSqls : ExecuteSqlWithTimeout(sql)

SpecExecutor == Init /\ [][NextExecutor]_vars

\* Init on the connection get_target_connection gives the importers.
InitRun == Init /\ shape = "sqlalchemy"

\* one orchestrated run of either importer
NextRun ==
    \/ \E variant \in Variants, healthy \in BOOLEAN, resume \in BOOLEAN :
          RunBegin(variant, healthy, resume)
    \/ RunUnit
    \/ \E proceed \in BOOLEAN : RunEnd(proceed)

SpecRun == InitRun /\ [][NextRun]_vars

\* The progress files an interrupted run of the base importer leaves (two
\* table rows, one primary-key row), and none.
SavedProgress ==
    {[NoProgress EXCEPT !.path = path] : path \in ProgressPaths}
    \cup {[NoProgress EXCEPT !.exists = TRUE, !.table_operations = 1]}
    \cup {[NoProgress EXCEPT !.exists = TRUE, !.table_operations = 2, !.pk_creation = k] :
             k \in 0..1}

\* The base importer started on a database where an earlier run may have
\* been interrupted: Init, the progress file apart.
InitResume ==
    /\ shape = "sqlalchemy"
    /\ autocommit = "absent"
    /\ \E schema \in InitSchemas :
       \E ledger \in InitLedgers(schema) :
          com = [schema |-> schema, ledger |-> ledger, effects |-> <<>>]
    /\ wrk = com
    /\ counts = [success |-> 0, failure |-> 0]
    /\ pc = "idle"
    /\ inv = NoInv
    /\ sc = NoScope
    /\ hist = [seeded |-> InSeq("script1", com.ledger), completed |-> {}, ledgerFault |-> FALSE,
               failed |-> {}, unrecorded |-> {}, environ0 |-> <<>>]
    /\ nops = 0
    /\ nfaults = 0
    /\ environ = [k \in EnvKeys |-> "unset"]
    /\ progress \in SavedProgress

\* one run of the base importer, with or without RESUME=1
NextResume ==
    \/ \E healthy \in BOOLEAN, resume \in BOOLEAN : RunBegin("base", healthy, resume)
    \/ RunUnit
    \/ \E proceed \in BOOLEAN : RunEnd(proceed)

SpecResume == InitResume /\ [][NextResume]_vars

\* The runner's process before the call: any environment, no database work.
InitRunner ==
    /\ environ \in Environs
    /\ shape = "sqlalchemy"
    /\ autocommit = "absent"
    /\ com = [schema |-> NoSchema, ledger |-> <<>>, effects |-> <<>>]
    /\ wrk = com
    /\ counts = [success |-> 0, failure |-> 0]
    /\ pc = "idle"
    /\ inv = NoInv
    /\ sc = NoScope
    /\ hist = [seeded |-> FALSE, completed |-> {}, ledgerFault |-> FALSE,
               failed |-> {}, unrecorded |-> {}, environ0 |-> <<>>]
    /\ nops = 0
    /\ nfaults = 0
    /\ progress = NoProgress

\* run_sequential_etl called with any env
NextRunner ==
    \/ \E env \in Environs : RunnerBegin(env)
    \/ \E outcome \in {"truthy", "falsy", "raise"} : ModuleMain(outcome)

SpecRunner == InitRunner /\ [][NextRunner]_vars

\* run_sequential_etl over the repository's import modules
NextSequence ==
    \/ \E env \in Environs : RunnerBegin(env)
    \/ \E run_ret \in RunReturns : ImportModuleMain(run_ret)

SpecSequence == InitRunner /\ [][NextSequence]_vars

\* run_sql_script in batched mode on scripts of several forms, the ledger
\* new at first
NextSplit ==
    \/ \E name \in SplitNames : ScriptStart(name, FALSE)
    \/ ScriptBatch
    \/ ScriptRecord

SpecSplit == InitNew /\ [][NextSplit]_vars

----------------------------------------------------------------------------
(* Properties of run_sql_step_with_retry, checked under SpecRetry *)

RetryEnded == inv.op = "retry" /\ inv.status \in {"returned", "raised"}

\* The first j attempts all failed with a transient-classified error.
TransientUpTo(j) == \A i \in 1..j : inv.outcomes[i] = "transient"

\* C5: with max_retries = n, a step whose first k < n attempts fail with a
\* transient error and whose next attempt succeeds is attempted exactly k+1
\* times and the call returns that attempt's result; a step that fails with
\* a transient error on every attempt is attempted exactly n times and the
\* call raises the SQLExecutionError of the n-th attempt.
C5_RetryBound ==
    (inv.op = "retry") =>
        /\ inv.k <= inv.max_retries
        /\ RetryEnded =>
            /\ (TransientUpTo(inv.k - 1) /\ inv.outcomes[inv.k] = "ok") =>
                  /\ inv.k - 1 < inv.max_retries
                  /\ inv.status = "returned"
                  /\ inv.ret = inv.lastRet
            /\ TransientUpTo(inv.k) =>
                  /\ inv.k = inv.max_retries
                  /\ inv.status = "raised"
                  /\ inv.exc = inv.last
                  /\ inv.exc.cls = "SQLExecutionError"
        /\ (inv.status = "running" /\ inv.k >= 1) => inv.k < inv.max_retries

\* Two transient failures, then success on the third of three attempts.
C5_Witness ==
    /\ RetryEnded
    /\ inv.max_retries = 3
    /\ inv.outcomes = <<"transient", "transient", "ok">>
    /\ inv.status = "returned"
    /\ inv.ret = "rows"

\* C6: a step whose failure is not transient (a driver error whose message
\* has neither "timeout" nor "deadlock", or an error that is no driver
\* error) is attempted exactly once and its SQLExecutionError is raised at
\* once, without a sleep or a retry, whatever max_retries is.
C6_NonTransientNoRetry ==
    (inv.op = "retry" /\ inv.k >= 1 /\ inv.outcomes[1] \in {"driver", "other"}) =>
        /\ inv.k = 1
        /\ inv.status = "raised"
        /\ inv.exc = inv.last
        /\ inv.sleeps = <<>>

----------------------------------------------------------------------------
(* Properties of run_sql_script, checked under SpecScript *)

\* The units run_sql_script is to submit: the executable batches, or the
\* whole text in raw mode.
ExpectedUnits == IF inv.raw THEN <<inv.sql>> ELSE ExecBatches(inv.sql)

ScriptEnded == inv.op = "script" /\ inv.status \in {"returned", "raised"}

\* The first j expected units are committed, in order, behind what the
\* connection held when the invocation began.
CommittedUpTo(j) ==
    j >= 1 =>
        /\ Len(com.effects) >= inv.eff0 + j
        /\ SubSeq(com.effects, inv.eff0 + 1, inv.eff0 + j) = SubSeq(ExpectedUnits, 1, j)

C2_Original ==
    (ScriptEnded /\ inv.recorded) => (inv.obs.stmts = 0 /\ inv.status = "returned")

\* C2 amended: when the name is already recorded in the ledger and the
\* gate's driver calls succeed, run_sql_script returns without error having
\* executed only the gate's own statements (the existence checks, the
\* one-time upgrade of a legacy ledger, the ledger lookup): no batch of the
\* script, no ledger insert, and on an up-to-date ledger nothing but the
\* three read-only queries.
C2_RecordedSkipsScript ==
    (ScriptEnded /\ inv.recorded /\ ~inv.gateFault) =>
        /\ inv.status = "returned"
        /\ inv.gate = "skipped"
        /\ inv.obs.units = <<>>
        /\ inv.obs.inserts = 0
        /\ inv.obs.stmts >= 1
        /\ Len(wrk.effects) = inv.eff0
        /\ com.schema = Fresh => (inv.obs.stmts = 3 /\ inv.obs.reads = 3)

\* A pre-seeded name skipped after the three gate queries.
C2_Witness ==
    /\ ScriptEnded
    /\ hist.seeded
    /\ inv.recorded
    /\ ~inv.gateFault
    /\ inv.status = "returned"
    /\ inv.obs.stmts = 3
    /\ inv.obs.units = <<>>

IsPrefix(s, t) == Len(s) <= Len(t) /\ SubSeq(t, 1, Len(s)) = s

\* The ledger insert is made after every unit of the invocation was
\* executed and committed; other changes of the connection's view of the
\* ledger only drop uncommitted rows.
RecordAfterBatches ==
    wrk'.ledger # wrk.ledger =>
        \/ /\ wrk'.ledger = Append(wrk.ledger, inv.name)
           /\ pc = "script"
           /\ inv.todo = <<>>
           /\ inv.obs.units = ExpectedUnits
           /\ CommittedUpTo(Len(ExpectedUnits))
        \/ wrk'.ledger = com.ledger

\* Committed ledger rows stay as they are: the ledger only grows at its end.
LedgerGrowsOnly == IsPrefix(com.ledger, com'.ledger)

----------------------------------------------------------------------------
(* Properties of transaction_scope, checked under SpecScope *)

ScopeExited == sc.status = "exited"

\* The block ended normally / with an exception escaping it.
BlockReturned == sc.blockExc = NoExc
BlockRaised == sc.blockExc # NoExc

\* C7: after transaction_scope exits, autocommit has the value it had on
\* entry, and is absent if it was absent, whether the block returned, an
\* exception escaped it, or commit or rollback raised.
C7_AutocommitRestored == ScopeExited => autocommit = sc.orig

\* The scope's commit raised, a rollback followed, and autocommit is on again.
C7_Witness ==
    /\ ScopeExited
    /\ sc.orig = "on"
    /\ BlockReturned
    /\ sc.commits = 1
    /\ sc.rollbacks = 1
    /\ sc.outExc # NoExc
    /\ autocommit = "on"

\* C8 as stated: one commit and no rollback when the block exits normally,
\* one rollback and no commit when an exception escapes the block.
C8_Original ==
    ScopeExited =>
        /\ BlockReturned => (sc.commits = 1 /\ sc.rollbacks = 0)
        /\ BlockRaised => (sc.rollbacks = 1 /\ sc.commits = 0)

\* C8 amended: when the block exits normally the scope commits once, and
\* rolls back once exactly when that commit raised; when an exception
\* escapes the block it rolls back once and does not commit; it never
\* does neither.
C8_CommitOrRollback ==
    ScopeExited =>
        /\ BlockReturned =>
              /\ sc.commits = 1
              /\ sc.rollbacks = (IF sc.outExc # NoExc THEN 1 ELSE 0)
        /\ BlockRaised => (sc.rollbacks = 1 /\ sc.commits = 0)
        /\ sc.commits + sc.rollbacks >= 1

\* An exception escaped the block: one rollback, no commit.
C8_Witness ==
    /\ ScopeExited
    /\ BlockRaised
    /\ sc.rollbacks = 1
    /\ sc.commits = 0
    /\ sc.outExc = sc.blockExc

\* C9: for every exception E escaping the block, rollback is invoked and
\* the exception that leaves the scope is E itself, also when the rollback
\* call fails.
C9_OriginalExceptionReraised ==
    (ScopeExited /\ BlockRaised) => (sc.rollbacks = 1 /\ sc.outExc = sc.blockExc)

\* The committed effects end with the steps the block completed.
DoneCommitted ==
    /\ Len(com.effects) >= Len(sc.done)
    /\ SubSeq(com.effects, Len(com.effects) - Len(sc.done) + 1, Len(com.effects)) = sc.done

\* No effect of the steps the block completed is committed behind what
\* was committed when the scope was entered.
NoneOfDoneCommitted ==
    \A i \in 1..Len(sc.done) : ~IsPrefix(sc.eff0 \o SubSeq(sc.done, 1, i), com.effects)

\* C10: steps run inside one transaction_scope are atomic: if step k fails
\* and the scope rolls back, no effect of the steps 1..k-1 remains
\* committed; if all steps succeed, all of their effects are committed.
C10_ScopeAtomic ==
    ScopeExited =>
        /\ (sc.blockExc.cls = "SQLExecutionError" /\ sc.outExc = sc.blockExc) =>
              NoneOfDoneCommitted
        /\ (BlockReturned /\ sc.outExc = NoExc) => DoneCommitted

----------------------------------------------------------------------------
(* Properties of the ledger, checked under SpecLedger *)

\* C11: whatever operations have been run, each script name has at most one
\* row in the ledger (in the committed database and in the connection's view).
C11_LedgerUnique ==
    \A name \in LedgerNames \cup StepNames \cup ScriptNames :
        Count(name, com.ledger) <= 1 /\ Count(name, wrk.ledger) <= 1

\* C14: a call of has_migration never raises; it returns False whenever the
\* ledger's SELECT failed or the table is missing, and True only when the
\* ledger holds a row with the name.
C14_HasNeverRaises ==
    inv.op = "has" =>
        /\ inv.status = "returned"
        /\ inv.ret \in {"True", "False"}
        /\ inv.ret = "True" => inv.recorded

----------------------------------------------------------------------------
(* Properties of the splitting, checked under SpecSplit *)

\* C12: in batched mode the units submitted to the driver are, in order, the
\* GO-separated batches that have a line that is neither blank nor a comment,
\* each without its blank and comment lines; a run that returns normally
\* after passing the gate has submitted all of them.
C12_UnitsAreCleanedBatches ==
    (inv.op = "script" /\ ~inv.raw) =>
        /\ IsPrefix(inv.obs.units, CleanedBatches(inv.sql))
        /\ (inv.status = "returned" /\ inv.gate = "passed") =>
               inv.obs.units = CleanedBatches(inv.sql)

\* The statements of a line, the ';' between them removed.
SemiStatements(l) ==
    IF l = "SELECT 1; FAIL; SELECT 2" THEN <<"SELECT 1", "FAIL", "SELECT 2">> ELSE <<l>>

\* The statements of a batch, each as a unit of its own.
StatementsOfBatch(b) ==
    IF Len(b) = 1 THEN [i \in 1..Len(SemiStatements(b[1])) |-> <<SemiStatements(b[1])[i]>>]
    ELSE <<b>>

RECURSIVE StatementsOf(_)
StatementsOf(batches) ==
    IF batches = <<>> THEN <<>>
    ELSE StatementsOfBatch(Head(batches)) \o StatementsOf(Tail(batches))

\* C19: a script whose statements are separated by ';' is submitted one
\* statement per driver call, without the ';'; when a statement fails the
\* error carries that statement's text only, the statements before it having
\* been submitted.
C19_OneStatementPerCall ==
    (inv.op = "script" /\ ~inv.raw) =>
        /\ IsPrefix(inv.obs.units, StatementsOf(ExecBatches(inv.sql)))
        /\ inv.failedIn = "batch" =>
               /\ inv.exc.cls = "SQLExecutionError"
               /\ inv.obs.units # <<>>
               /\ inv.exc.sql = inv.obs.units[Len(inv.obs.units)]

----------------------------------------------------------------------------
(* The delays of run_sql_step_with_retry, checked under SpecRetry *)

\* C17: the i-th sleep (after failed attempt i - 1, counted from 0) lasts
\* 2^(i-1) seconds, each delay the double of the one before; a sleep follows
\* failed attempts only and never the last attempt made, and there are never
\* more than max_retries attempts.
C17_ExponentialBackoff ==
    inv.op = "retry" =>
        /\ inv.k <= inv.max_retries
        /\ \A i \in 1..Len(inv.sleeps) :
              /\ inv.sleeps[i] = 2 ^ (i - 1)
              /\ i > 1 => inv.sleeps[i] = 2 * inv.sleeps[i - 1]
              /\ inv.outcomes[i] # "ok"
        /\ Len(inv.sleeps) = IF RetryEnded THEN inv.k - 1 ELSE inv.k

\* Two failed attempts, each followed by a sleep, and a third attempt that
\* succeeds.
C17_Witness ==
    /\ inv.op = "retry"
    /\ inv.status = "returned"
    /\ inv.max_retries = 3
    /\ inv.k = 3
    /\ inv.sleeps = <<1, 2>>
    /\ inv.outcomes[3] = "ok"

----------------------------------------------------------------------------
(* Re-running a failed script, checked under SpecScript *)

\* The batches the invocation has applied to the connection's view.
AppliedSince == SubSeq(wrk.effects, inv.eff0 + 1, Len(wrk.effects))

\* A batched invocation of a script an earlier invocation of which failed at
\* a batch after the first.
RerunAfterPartialFailure == inv.op = "script" /\ ~inv.raw /\ inv.prevk > 1

\* C18: a later invocation of a script that is not in the ledger and that an
\* earlier invocation left at a failed batch k > 1 is not skipped; it submits
\* the batches from the first one on, never resuming at batch k, and when it
\* returns it has executed every batch again, batches 1..k-1 included.
C18_FailedScriptRerunsAll ==
    (RerunAfterPartialFailure /\ ~inv.recorded) =>
        /\ inv.gate # "skipped"
        /\ IsPrefix(inv.obs.units, CleanedBatches(inv.sql))
        /\ inv.status = "returned" =>
               /\ inv.obs.units = CleanedBatches(inv.sql)
               /\ AppliedSince = CleanedBatches(inv.sql)

\* The first invocation committed batch 1 and failed at batch 2; the second
\* one has returned after executing batch 1 a second time, and batch 2.
C18_Witness ==
    /\ RerunAfterPartialFailure
    /\ ~inv.recorded
    /\ inv.prevk = 2
    /\ inv.status = "returned"
    /\ inv.gate = "passed"
    /\ Count(<<"SELECT 1">>, com.effects) = 2
    /\ Count(<<"SELECT 2">>, com.effects) = 1

----------------------------------------------------------------------------
(* Raw execution, checked under SpecScript *)

\* C20: with raw_execution the only unit ever submitted is the whole text of
\* the script, unmodified, in one call; once that call and its one commit
\* are done the text's effect is committed and nothing is recorded yet; the
\* ledger row is written only after them; and when the call fails a
\* SQLExecutionError is raised and no row is written.
C20_RawSingleCall ==
    (inv.op = "script" /\ inv.raw) =>
        /\ IsPrefix(inv.obs.units, <<inv.sql>>)
        /\ (pc = "script" /\ inv.todo = <<>>) =>
               /\ inv.obs.units = <<inv.sql>>
               /\ inv.ucommits = 1
               /\ inv.obs.inserts = 0
               /\ Len(com.effects) > inv.eff0
               /\ com.effects[inv.eff0 + 1] = inv.sql
        /\ inv.obs.inserts >= 1 => (inv.obs.units = <<inv.sql>> /\ inv.ucommits = 1)
        /\ (inv.status = "returned" /\ inv.gate = "passed") =>
               (inv.obs.inserts = 1 /\ InSeq(inv.name, com.ledger))
        /\ inv.failedIn = "batch" =>
               /\ inv.status = "raised"
               /\ inv.exc.cls = "SQLExecutionError"
               /\ inv.obs.inserts = 0
               /\ ~inv.recorded => ~InSeq(inv.name, wrk.ledger)

\* A raw invocation of a script with GO and comment lines has returned: one
\* unit, the whole text, then the ledger row.
C20_Witness ==
    /\ inv.op = "script"
    /\ inv.raw
    /\ inv.status = "returned"
    /\ inv.gate = "passed"
    /\ \E i \in 1..Len(inv.sql) : IsGo(inv.sql[i])
    /\ \E i \in 1..Len(inv.sql) : IsComment(inv.sql[i])
    /\ inv.obs.units = <<inv.sql>>
    /\ inv.ucommits = 1
    /\ InSeq(inv.name, com.ledger)

----------------------------------------------------------------------------
(* Properties of execute_sql_with_timeout, checked under SpecExecutor *)

\* C13: whatever the driver raises while execute_sql_with_timeout executes a
\* statement reaches the caller as a SQLExecutionError that carries the
\* driver's exception and the SQL text attempted.
C13_DriverErrorsWrapped ==
    (inv.op = "execute" /\ inv.status = "raised") =>
        /\ inv.exc.cls = "SQLExecutionError"
        /\ inv.exc.sql = inv.sql
        /\ inv.exc.orig[1] # "none"

----------------------------------------------------------------------------
(* Properties of the orchestrated run, checked under SpecRun *)

\* C15: a run that reports success (returns True) has had every unit of
\* every phase succeed: no phase and no table or primary-key operation of it
\* has failed.
C15_SuccessMeansAllUnitsSucceeded ==
    (inv.op = "run" /\ inv.status = "returned" /\ inv.ret = "True") =>
        \A i \in 1..Len(inv.outcomes) : inv.outcomes[i] = "ok"

----------------------------------------------------------------------------
(* Properties of run_sequential_etl, checked under SpecRunner *)

RunnerEnded == inv.op = "runner" /\ inv.status \in {"returned", "raised"}

\* C16: the modules' main() functions are called in the order Justice,
\* Operations, Financial, LOB; a module is called only if every module
\* before it returned a truthy value; and however the call ends (all four
\* called, a falsy value, an exception) the environment is then equal to the
\* environment before the call.
C16_OrderGateAndEnvironment ==
    inv.op = "runner" =>
        /\ IsPrefix(inv.calls, import_modules)
        /\ Len(inv.outcomes) = Len(inv.calls)
        /\ \A i \in 1..(Len(inv.calls) - 1) : inv.outcomes[i] = "truthy"
        /\ (inv.status = "running") => \A i \in 1..Len(inv.calls) : inv.outcomes[i] = "truthy"
        /\ RunnerEnded =>
               /\ environ = hist.environ0
               /\ (Len(inv.calls) < Len(import_modules)) =>
                      inv.outcomes[Len(inv.calls)] # "truthy"

\* The scenario of test_run_sequential_etl_restores_env: FOO was 'old', the
\* call set it (and added BAR), the second module returned a falsy value;
\* two modules were called and FOO is 'old' again, BAR unset.
C16_Witness ==
    /\ RunnerEnded
    /\ inv.calls = <<"01_JusticeDB_Import", "02_OperationsDB_Import">>
    /\ inv.outcomes = <<"truthy", "falsy">>
    /\ hist.environ0 = [k \in EnvKeys |-> IF k = "FOO" THEN "old" ELSE "unset"]
    /\ inv.env = [k \in EnvKeys |-> "new"]
    /\ environ = hist.environ0

----------------------------------------------------------------------------
(* Failure of the ledger insert, checked under SpecLedger *)

\* C21: when the INSERT of record_migration fails, record_migration calls
\* rollback on the connection and raises the INSERT's own exception to its
\* caller, on a statement-execute connection and on a cursor-based one.
C21_InsertFailureRollsBack ==
    (inv.op = "record" /\ inv.last # NoExc) =>
        /\ inv.status = "raised"
        /\ inv.obs.rollbacks = 1
        /\ inv.exc = inv.last

----------------------------------------------------------------------------
(* Failure of the ledger write of a script, checked under SpecScript *)

\* C22: when every batch of a script that was not in the ledger has executed
\* and the ledger write then fails, run_sql_script raises to its caller and
\* the name is in the ledger neither as committed nor as the connection sees
\* it; the next invocation with that name is not skipped.
C22_LedgerWriteFailureLeavesNoRow ==
    /\ (inv.op = "script" /\ inv.failedIn = "record" /\ ~inv.recorded) =>
           /\ inv.status = "raised"
           /\ inv.obs.units = ExpectedUnits
           /\ ~InSeq(inv.name, com.ledger)
           /\ ~InSeq(inv.name, wrk.ledger)
    /\ (inv.op = "script" /\ inv.prevUnrecorded /\ ~inv.gateFault) =>
           inv.gate # "skipped"

----------------------------------------------------------------------------
(* The counters of a script, checked under SpecScript *)

\* C23: an invocation of run_sql_script that has passed the gate leaves the
\* counters alone while its batches run, and when it ends it has added
\* exactly one to them: one to the success counter if it returned, one to
\* the failure counter if it raised (at a batch or at the ledger write).
C23_OneCountPerScript ==
    (inv.op = "script" /\ inv.gate = "passed") =>
        /\ pc = "script" => counts = inv.counts0
        /\ inv.status = "returned" =>
               counts = [inv.counts0 EXCEPT !.success = @ + 1]
        /\ inv.status = "raised" =>
               counts = [inv.counts0 EXCEPT !.failure = @ + 1]

----------------------------------------------------------------------------
(* The lock timeout of execute_sql_with_timeout, checked under SpecExecutor *)

\* C24: on a cursor-based connection execute_sql_with_timeout issues SET
\* LOCK_TIMEOUT and then the statement; when setting the timeout fails the
\* error is passed over: the statement is executed all the same, and once it
\* has taken effect the call returns the cursor.
C24_LockTimeoutBestEffort ==
    (inv.op = "execute" /\ shape = "dbapi") =>
        /\ IsPrefix(inv.calls, <<"lock_timeout", "unit">>)
        /\ inv.calls # <<>>
        /\ inv.failedIn = "lock_timeout" =>
               /\ inv.calls = <<"lock_timeout", "unit">>
               /\ inv.obs.units = <<inv.sql>>
               /\ Len(wrk.effects) > inv.eff0 =>
                      (inv.status = "returned" /\ inv.ret = "cursor")

----------------------------------------------------------------------------
(* Properties of BaseDBImporter.run, checked under SpecResume *)

BaseRun == inv.op = "run" /\ inv.name = "base"

\* The last unit executed raised an exception.
LastUnitRaised == inv.outcomes # <<>> /\ inv.outcomes[Len(inv.outcomes)] = "raised"

\* C25: the phases of BaseDBImporter.run are started in the order
\* preprocessing, drop/select preparation, join import, join update, table
\* operations, empty-table drop, primary-key creation; a phase is started
\* only when nothing before it has raised; once a unit raises the run ends
\* (with False) and no later phase is started; the completion step is
\* reached only after all seven phases.
C25_PhasesInOrder ==
    BaseRun =>
        /\ IsPrefix(inv.calls, BasePhases)
        /\ \A i \in 1..(Len(inv.outcomes) - 1) : inv.outcomes[i] # "raised"
        /\ LastUnitRaised =>
               (inv.todo = <<>> /\ pc = "idle" /\ inv.status = "returned" /\ inv.ret = "False")
        /\ (inv.todo = <<>> /\ inv.calls # <<>> /\ ~LastUnitRaised) => inv.calls = BasePhases

\* The run ended in the table operations: the five first phases were
\* started, in order, and the two last ones never.
C25_Witness ==
    /\ BaseRun
    /\ LastUnitRaised
    /\ inv.status = "returned"
    /\ inv.calls = SubSeq(BasePhases, 1, 5)
    /\ inv.rows # <<>>
    /\ inv.rows[Len(inv.rows)].outcome = "raised"

----------------------------------------------------------------------------
(* The progress of the two row loops, checked under SpecResume *)

\* The value of a key with which the run starts its phases: the saved one
\* with RESUME=1, 0 otherwise.
SavedAt(key) == IF inv.resume THEN ProgressGet(inv.progress0, key) ELSE 0

\* The rows of a phase the run has come to, in order.
RowsOf(key) == SelectSeq(inv.rows, LAMBDA row : row.key = key)

\* The index of the last row of the phase completed successfully, by this
\* run or by the one it resumes.
LastDone(key) ==
    LET done == {SavedAt(key)}
                \cup {RowsOf(key)[i].idx :
                         i \in {j \in 1..Len(RowsOf(key)) : RowsOf(key)[j].outcome = "ok"}}
    IN CHOOSE m \in done : \A x \in done : x <= m

\* While the phases run, and after one of them has failed, the saved value
\* of each phase is the index of its last successful row; the rows are come
\* to in the order 1, 2, ... and exactly those up to the value the run
\* started with are passed over.
ProgressTracksRows ==
    (BaseRun /\ (pc = "run" \/ LastUnitRaised)) =>
        \A key \in ProgressKeys :
            /\ ProgressGet(progress, key) = LastDone(key)
            /\ \A i \in 1..Len(RowsOf(key)) :
                  /\ RowsOf(key)[i].idx = i
                  /\ (RowsOf(key)[i].outcome = "skipped") <=> (i <= SavedAt(key))

\* No step of the phases lowers a saved value.
ProgressNeverDecreases ==
    (pc = "run" /\ inv.todo # <<>>) =>
        \A key \in ProgressKeys : ProgressGet(progress', key) >= ProgressGet(progress, key)

\* C26: during execute_table_operations and create_primary_keys the saved
\* progress of the phase is always the index of the last row of the phase
\* that completed successfully (0 if none) and never decreases; a run that
\* starts the phase with saved value s passes over exactly the rows with
\* index <= s and processes the rows s+1, s+2, ... in order; a row that
\* fails leaves the value at the last successful index.
C26_ProgressIsLastSuccessfulRow == [][ProgressTracksRows' /\ ProgressNeverDecreases]_vars

----------------------------------------------------------------------------
(* The life of the progress file, checked under SpecResume *)

\* The run went through all its phases and its completion step.
RunCompleted ==
    BaseRun /\ inv.status = "returned" /\ inv.calls = BasePhases /\ ~LastUnitRaised

\* Without RESUME=1 there is no progress file when the phases begin; with
\* RESUME=1 the file is as it was found, and its values decide the rows
\* that are passed over; after a completed run there is no file.
ProgressLifecycle ==
    BaseRun =>
        /\ (~inv.resume /\ inv.calls = <<>>) => ~progress.exists
        /\ (inv.resume /\ inv.calls = <<>>) => progress = inv.progress0
        /\ \A i \in 1..Len(inv.rows) :
              (inv.rows[i].outcome = "skipped") <=>
                  (inv.resume /\ inv.rows[i].idx <= ProgressGet(inv.progress0, inv.rows[i].key))
        /\ RunCompleted => ~progress.exists

\* The step in which a phase fails leaves the progress file as it is.
FailureKeepsProgress == (pc = "run" /\ LastUnitRaised') => progress' = progress

----------------------------------------------------------------------------
(* Re-execution by run_sql_step_with_retry, checked under SpecRetry *)

\* C28: within one call of run_sql_step_with_retry no attempt follows an
\* attempt whose SQL statement was executed successfully: such an attempt
\* is the last one, whatever happens to its fetch or its ledger write.
C28_NoReexecutionAfterSuccess ==
    (inv.op = "retry") =>
        \A i \in 1..Len(inv.executed) :
            inv.executed[i] => (i = Len(inv.executed) /\ inv.status # "running")

----------------------------------------------------------------------------
(* The gate of run_sql_script inside a transaction_scope, checked under    *)
(* SpecGate                                                                *)

\* This step is a call of run_sql_script inside an open transaction_scope
\* whose gate finds a current ledger table and meets no driver fault.
GateRunsInScope ==
    /\ pc = "idle"
    /\ InScope
    /\ nops' = nops + 1
    /\ inv'.op = "script"
    /\ wrk.schema = Fresh
    /\ ~inv'.gateFault

\* C29: the gate of run_sql_script (ensure_version_table on a current
\* ledger table, then has_migration) commits nothing and rolls nothing
\* back: what the enclosing transaction_scope has left pending is still
\* uncommitted when the call that ran the gate has started.
C29_GateLeavesTransactionAlone ==
    [][GateRunsInScope =>
          /\ inv'.obs.commits = 0
          /\ inv'.obs.rollbacks = 0
          /\ com' = com]_vars

----------------------------------------------------------------------------
(* run_sequential_etl over the import modules, checked under SpecSequence  *)

\* C30: when the importer of a module that is not the last returns True
\* from run(), run_sequential_etl goes on to the next module of the
\* sequence; so Operations, Financial and LOB are reached when every
\* earlier importer returned True.
C30_SequenceContinues ==
    (inv.op = "runner" /\ inv.calls # <<>>
        /\ Len(inv.outcomes) = Len(inv.calls)
        /\ inv.outcomes[Len(inv.outcomes)] = "True"
        /\ Len(inv.calls) < Len(import_modules)) =>
            /\ inv.status = "running"
            /\ inv.todo # <<>>
            /\ Head(inv.todo) = import_modules[Len(inv.calls) + 1]

====
